---- MODULE Spec2Model ----
(***************************************************************************)
(* The session context of the application (AuthContextProvider): the      *)
(* in-memory user, the HTTP client's default Authorization header, the two *)
(* persisted keys (user record, token) and the isLoadingUserStorage flag,  *)
(* driven by signIn, signOut, updateUserProfile and the boot-time          *)
(* loadUserData.  Every operation is an async function: it runs            *)
(* synchronously up to its next await, and the awaited network or storage  *)
(* call then completes (or throws) in a later step, so the steps of        *)
(* different calls interleave at the awaits.                               *)
(***************************************************************************)
EXTENDS Naturals, Sequences, FiniteSets, TLC

\* ---------------------------------------------------------------- bounds
\* Number of session-operation calls that may be in flight at once.
MaxCalls == 1

\* ---------------------------------------------------------------- values
Ids == {1, 2}
Names == {"ana", "bob"}
Emails == {"ana@x.com"}
Avatars == {"none"}

\* UserDTO: identifier, name, email, avatar reference.
UserDTO == [id : Ids, name : Names, email : Emails, avatar : Avatars]

\* `{} as UserDTO`: the object without fields, the logged-out sentinel.
EmptyUser == << >>

\* null / undefined where a UserDTO was expected.
NullUser == [null |-> TRUE]

\* The users the remote API knows (POST /sessions answers with one of them).
ServerUsers == {[id |-> 1, name |-> "ana", email |-> "ana@x.com", avatar |-> "none"],
                [id |-> 2, name |-> "bob", email |-> "ana@x.com", avatar |-> "none"]}

\* Bearer tokens the remote API issues.
Tokens == {"t1", "t2"}

\* null / undefined where a token string was expected.
Null == "null"

\* The payloads POST /sessions can answer with: a user or none, a token, an
\* empty token or none.
Responses == [user : ServerUsers \cup {NullUser}, token : Tokens \cup {"", Null}]

\* JavaScript truthiness of a token string and of a user object.
TruthyToken(t) == t # Null /\ t # ""
TruthyUser(u) == u # NullUser

\* `Bearer ${token}`, and the header map without an Authorization entry.
Bearer(token) == <<"Bearer", token>>
NoHeader == << >>

\* ------------------------------------------------------ persistent store
\* A key that holds no item.
NoItem == << >>

\* The serialized user record kept under the user key, and its parse.
Serialize(u) == <<u.id, u.name, u.email, u.avatar>>
Parse(s) == [id |-> s[1], name |-> s[2], email |-> s[3], avatar |-> s[4]]

\* storageUserSave / storageUserGet / storageUserRemove on the user key.
storageUserSave(u) == Serialize(u)
storageUserGet(item) == IF item = NoItem THEN NullUser ELSE Parse(item)
storageUserRemove == NoItem

\* storageAuthTokenSave / storageAuthTokenGet / storageAuthTokenRemove.
storageAuthTokenSave(token) == token
storageAuthTokenGet(item) == item
storageAuthTokenRemove == Null

\* ----------------------------------------------------------------- state
VARIABLES
  user,                  \* useState<UserDTO>: the in-memory user
  isLoadingUserStorage,  \* useState(true): the loading flag
  header,                \* api.defaults.headers.common.Authorization
  stUser,                \* persistent store, user key
  stToken,               \* persistent store, token key
  calls,                 \* the calls of session operations, by slot
  booted,                \* the provider's mount effect has run
  pre,                   \* the state when the call that runs alone began
  lastUpd,               \* the last updateUserProfile that resolved alone
  signUp,                \* the SignUp screen: form, errors, isLoading, handlers
  profile                \* the Profile screen: form, errors, flags, handlers

vars == <<user, isLoadingUserStorage, header, stUser, stToken, calls, booted,
          pre, lastUpd, signUp, profile>>

\* The state of the two form screens.
screens == <<signUp, profile>>

\* A screen that is not mounted.
Unmounted == [mounted |-> FALSE]

\* The slots of this run: calls is a function on them.
Slots == DOMAIN calls

Idle == [op |-> "none", pc |-> "idle", userData |-> NullUser, token |-> Null,
         alone |-> FALSE, outcome |-> "none", error |-> "none"]

NoPre == [taken |-> FALSE]
NoUpd == [taken |-> FALSE]

Snapshot == [taken |-> TRUE, user |-> user, header |-> header, stUser |-> stUser,
             stToken |-> stToken, isLoadingUserStorage |-> isLoadingUserStorage]

InFlight == {c \in Slots : calls[c].pc \notin {"idle", "done"}}
FreeSlots == Slots \ InFlight
Quiescent == InFlight = {}

\* A call of operation op begins in the lowest free slot.  A call is `alone`
\* while no other call is in flight between its begin and its completion.
Begin(op, pc, userData, token) ==
  /\ booted
  /\ FreeSlots # {}
  /\ LET s == CHOOSE c \in FreeSlots : \A d \in FreeSlots : c <= d
     IN calls' = [c \in Slots |->
                    IF c = s
                      THEN [op |-> op, pc |-> pc, userData |-> userData,
                            token |-> token, alone |-> Quiescent,
                            outcome |-> "none", error |-> "none"]
                      ELSE IF calls[c].pc = "done" THEN Idle
                      ELSE [calls[c] EXCEPT !.alone = FALSE]]
  /\ pre' = IF Quiescent THEN Snapshot ELSE NoPre

\* The call in slot c moves to its next await.
Goto(c, pc) == calls' = [calls EXCEPT ![c].pc = pc]

\* The async function of the call in slot c returns: its promise resolves.
Resolve(c) ==
  calls' = [calls EXCEPT ![c].pc = "done", ![c].outcome = "resolved"]

\* The awaited call throws error and `catch (error) { throw error }` throws
\* it again: the promise of the call in slot c rejects with it.
Rethrow(c, error) ==
  calls' = [calls EXCEPT ![c].pc = "done", ![c].outcome = "rejected",
                         ![c].error = error]

\* The call in slot c is operation op, suspended at pc.
At(c, op, pc) == calls[c].op = op /\ calls[c].pc = pc

\* ------------------------------------------------------------ operations
\* userAndTokenUpdate(userData, token)
userAndTokenUpdate(userData, token) ==
  /\ header' = Bearer(token)
  /\ user' = userData

\* signIn(email, password) is called: it awaits POST /sessions.
signIn ==
  /\ Begin("signIn", "post", NullUser, Null)
  /\ lastUpd' = NoUpd
  /\ UNCHANGED <<user, isLoadingUserStorage, header, stUser, stToken, booted>>

\* signIn setting the loading flag also when data lacks a user or a token.
signInPost_FlagOnMissing(c) ==
  /\ At(c, "signIn", "post")
  /\ \/ /\ Rethrow(c, "api.post")
        /\ UNCHANGED isLoadingUserStorage
     \/ \E data \in Responses :
          IF TruthyUser(data.user) /\ TruthyToken(data.token)
            THEN /\ isLoadingUserStorage' = TRUE
                 /\ calls' = [calls EXCEPT ![c].pc = "saveUser",
                                           ![c].userData = data.user,
                                           ![c].token = data.token]
            ELSE /\ Resolve(c)
                 /\ isLoadingUserStorage' = TRUE
  /\ UNCHANGED <<user, header, stUser, stToken, booted, pre, lastUpd>>

\* POST /sessions completes.  It throws, or it answers with data; with a user
\* and a token in data, storageUserAndTokenSave sets the loading flag and
\* awaits storageUserSave.
signInPost(c) ==
  /\ At(c, "signIn", "post")
  /\ \/ /\ Rethrow(c, "api.post")
        /\ UNCHANGED isLoadingUserStorage
     \/ \E data \in Responses :
          IF TruthyUser(data.user) /\ TruthyToken(data.token)
            THEN /\ isLoadingUserStorage' = TRUE
                 /\ calls' = [calls EXCEPT ![c].pc = "saveUser",
                                           ![c].userData = data.user,
                                           ![c].token = data.token]
            ELSE /\ Resolve(c)
                 /\ UNCHANGED isLoadingUserStorage
  /\ UNCHANGED <<user, header, stUser, stToken, booted, pre, lastUpd>>

\* storageUserAndTokenSave: storageUserSave(userData) completes or throws.
storageUserAndTokenSaveUser(c) ==
  /\ At(c, "signIn", "saveUser")
  /\ \/ /\ stUser' = storageUserSave(calls[c].userData)
        /\ Goto(c, "saveToken")
        /\ UNCHANGED isLoadingUserStorage
     \/ /\ isLoadingUserStorage' = FALSE
        /\ Rethrow(c, "storageUserSave")
        /\ UNCHANGED stUser
  /\ UNCHANGED <<user, header, stToken, booted, pre, lastUpd>>

\* storageUserAndTokenSave with storageAuthTokenSave(token) not awaited: the
\* flag is cleared and signIn resumes before the token is written.
storageUserAndTokenSaveToken_NotAwaited(c) ==
  /\ At(c, "signIn", "saveToken")
  /\ isLoadingUserStorage' = FALSE
  /\ Goto(c, "update")
  /\ UNCHANGED <<user, header, stUser, stToken, booted, pre, lastUpd>>

\* storageUserAndTokenSave: storageAuthTokenSave(token) completes or throws;
\* the finally block clears the loading flag either way.
storageUserAndTokenSaveToken(c) ==
  /\ At(c, "signIn", "saveToken")
  /\ isLoadingUserStorage' = FALSE
  /\ \/ /\ stToken' = storageAuthTokenSave(calls[c].token)
        /\ Goto(c, "update")
     \/ /\ Rethrow(c, "storageAuthTokenSave")
        /\ UNCHANGED stToken
  /\ UNCHANGED <<user, header, stUser, booted, pre, lastUpd>>

\* signIn resumes after `await storageUserAndTokenSave(...)`.
signInUpdate(c) ==
  /\ At(c, "signIn", "update")
  /\ userAndTokenUpdate(calls[c].userData, calls[c].token)
  /\ Resolve(c)
  /\ UNCHANGED <<isLoadingUserStorage, stUser, stToken, booted, pre,
                 lastUpd>>

\* signOut() that does not set the loading flag.
signOut_NoFlag ==
  /\ Begin("signOut", "removeUser", NullUser, Null)
  /\ user' = EmptyUser
  /\ lastUpd' = NoUpd
  /\ UNCHANGED <<isLoadingUserStorage, header, stUser, stToken, booted>>

\* signOut() is called: flag set, in-memory user cleared, storageUserRemove
\* awaited.
signOut ==
  /\ Begin("signOut", "removeUser", NullUser, Null)
  /\ isLoadingUserStorage' = TRUE
  /\ user' = EmptyUser
  /\ lastUpd' = NoUpd
  /\ UNCHANGED <<header, stUser, stToken, booted>>

\* signOut without the finally block: a removal that throws leaves the loading
\* flag set.
signOutRemoveUser_NoFinally(c) ==
  /\ At(c, "signOut", "removeUser")
  /\ \/ /\ stUser' = storageUserRemove
        /\ Goto(c, "removeToken")
     \/ /\ Rethrow(c, "storageUserRemove")
        /\ UNCHANGED stUser
  /\ UNCHANGED <<user, isLoadingUserStorage, header, stToken, booted, pre, lastUpd>>

\* signOut: storageUserRemove() completes or throws.
signOutRemoveUser(c) ==
  /\ At(c, "signOut", "removeUser")
  /\ \/ /\ stUser' = storageUserRemove
        /\ Goto(c, "removeToken")
        /\ UNCHANGED isLoadingUserStorage
     \/ /\ isLoadingUserStorage' = FALSE
        /\ Rethrow(c, "storageUserRemove")
        /\ UNCHANGED stUser
  /\ UNCHANGED <<user, header, stToken, booted, pre, lastUpd>>

\* signOut: storageAuthTokenRemove() completes or throws; finally clears the
\* loading flag.
signOutRemoveToken(c) ==
  /\ At(c, "signOut", "removeToken")
  /\ isLoadingUserStorage' = FALSE
  /\ \/ /\ stToken' = storageAuthTokenRemove
        /\ Resolve(c)
     \/ /\ Rethrow(c, "storageAuthTokenRemove")
        /\ UNCHANGED stToken
  /\ UNCHANGED <<user, header, stUser, booted, pre, lastUpd>>

\* updateUserProfile(userUpdated) that persists without setUser(userUpdated).
updateUserProfile_NoSetUser(userUpdated) ==
  /\ Begin("updateUserProfile", "saveUser", userUpdated, Null)
  /\ lastUpd' = NoUpd
  /\ UNCHANGED <<user, isLoadingUserStorage, header, stUser, stToken, booted>>

\* updateUserProfile(userUpdated) is called: in-memory user replaced,
\* storageUserSave awaited.
updateUserProfile(userUpdated) ==
  /\ Begin("updateUserProfile", "saveUser", userUpdated, Null)
  /\ user' = userUpdated
  /\ lastUpd' = NoUpd
  /\ UNCHANGED <<isLoadingUserStorage, header, stUser, stToken, booted>>

\* updateUserProfile: storageUserSave(userUpdated) completes or throws.
updateUserProfileSave(c) ==
  /\ At(c, "updateUserProfile", "saveUser")
  /\ \/ /\ stUser' = storageUserSave(calls[c].userData)
        /\ Resolve(c)
        /\ lastUpd' = IF calls[c].alone
                        THEN [taken |-> TRUE, user |-> calls[c].userData,
                              stToken |-> pre.stToken]
                        ELSE lastUpd
     \/ /\ Rethrow(c, "storageUserSave")
        /\ UNCHANGED <<stUser, lastUpd>>
  /\ UNCHANGED <<user, isLoadingUserStorage, header, stToken, booted, pre>>

\* The provider's mount effect calls loadUserData(): flag set, storageUserGet
\* awaited.
loadUserData ==
  /\ ~booted
  /\ booted' = TRUE
  /\ isLoadingUserStorage' = TRUE
  /\ calls' = [calls EXCEPT ![1] = [op |-> "loadUserData", pc |-> "getUser",
                                    userData |-> NullUser, token |-> Null,
                                    alone |-> TRUE, outcome |-> "none",
                                    error |-> "none"]]
  /\ pre' = Snapshot
  /\ UNCHANGED <<user, header, stUser, stToken, lastUpd>>

\* loadUserData: storageUserGet() completes or throws.
loadUserDataGetUser(c) ==
  /\ At(c, "loadUserData", "getUser")
  /\ \/ /\ calls' = [calls EXCEPT ![c].pc = "getToken",
                                  ![c].userData = storageUserGet(stUser)]
        /\ UNCHANGED isLoadingUserStorage
     \/ /\ isLoadingUserStorage' = FALSE
        /\ Rethrow(c, "storageUserGet")
  /\ UNCHANGED <<user, header, stUser, stToken, booted, pre, lastUpd>>

\* loadUserData restoring with `token || userLogged` instead of `&&`.
loadUserDataGetToken_Or(c) ==
  /\ At(c, "loadUserData", "getToken")
  /\ isLoadingUserStorage' = FALSE
  /\ \/ LET token == storageAuthTokenGet(stToken)
            userLogged == calls[c].userData
        IN /\ IF TruthyToken(token) \/ TruthyUser(userLogged)
                THEN userAndTokenUpdate(userLogged, token)
                ELSE UNCHANGED <<user, header>>
           /\ calls' = [calls EXCEPT ![c].pc = "done", ![c].outcome = "resolved",
                                     ![c].token = token]
     \/ /\ Rethrow(c, "storageAuthTokenGet")
        /\ UNCHANGED <<user, header>>
  /\ UNCHANGED <<stUser, stToken, booted, pre, lastUpd>>

\* loadUserData: storageAuthTokenGet() completes or throws; with a token and a
\* user the session is restored; finally clears the loading flag.
loadUserDataGetToken(c) ==
  /\ At(c, "loadUserData", "getToken")
  /\ isLoadingUserStorage' = FALSE
  /\ \/ LET token == storageAuthTokenGet(stToken)
            userLogged == calls[c].userData
        IN /\ IF TruthyToken(token) /\ TruthyUser(userLogged)
                THEN userAndTokenUpdate(userLogged, token)
                ELSE UNCHANGED <<user, header>>
           /\ calls' = [calls EXCEPT ![c].pc = "done", ![c].outcome = "resolved",
                                     ![c].token = token]
     \/ /\ Rethrow(c, "storageAuthTokenGet")
        /\ UNCHANGED <<user, header>>
  /\ UNCHANGED <<stUser, stToken, booted, pre, lastUpd>>

\* The process is stopped between two operations and started again: a fresh
\* context and HTTP client, the persistent store kept.
Restart ==
  /\ booted
  /\ Quiescent
  /\ user' = EmptyUser
  /\ isLoadingUserStorage' = TRUE
  /\ header' = NoHeader
  /\ calls' = [c \in Slots |-> Idle]
  /\ booted' = FALSE
  /\ pre' = NoPre
  /\ UNCHANGED <<stUser, stToken, lastUpd>>

Init ==
  /\ user = EmptyUser
  /\ isLoadingUserStorage = TRUE
  /\ header = NoHeader
  /\ stUser = NoItem
  /\ stToken = Null
  /\ calls = [c \in 1 .. MaxCalls |-> Idle]
  /\ booted = FALSE
  /\ pre = NoPre
  /\ lastUpd = NoUpd
  /\ signUp = Unmounted
  /\ profile = Unmounted

Next ==
  \/ loadUserData /\ UNCHANGED screens
  \/ \E c \in Slots : loadUserDataGetUser(c) /\ UNCHANGED screens
  \/ \E c \in Slots : loadUserDataGetToken(c) /\ UNCHANGED screens
  \/ signIn /\ UNCHANGED screens
  \/ \E c \in Slots : signInPost(c) /\ UNCHANGED screens
  \/ \E c \in Slots : storageUserAndTokenSaveUser(c) /\ UNCHANGED screens
  \/ \E c \in Slots : storageUserAndTokenSaveToken(c) /\ UNCHANGED screens
  \/ \E c \in Slots : signInUpdate(c) /\ UNCHANGED screens
  \/ signOut /\ UNCHANGED screens
  \/ \E c \in Slots : signOutRemoveUser(c) /\ UNCHANGED screens
  \/ \E c \in Slots : signOutRemoveToken(c) /\ UNCHANGED screens
  \/ \E u \in UserDTO : updateUserProfile(u) /\ UNCHANGED screens
  \/ \E c \in Slots : updateUserProfileSave(c) /\ UNCHANGED screens
  \/ Restart /\ UNCHANGED screens

Spec == Init /\ [][Next]_vars

\* Two callers: the context does not serialize its operations, so a second
\* signIn can be called while the first is suspended at an await.
InitOverlap ==
  /\ user = EmptyUser
  /\ isLoadingUserStorage = TRUE
  /\ header = NoHeader
  /\ stUser = NoItem
  /\ stToken = Null
  /\ calls = [c \in 1 .. MaxCalls + 1 |-> Idle]
  /\ booted = FALSE
  /\ pre = NoPre
  /\ lastUpd = NoUpd
  /\ signUp = Unmounted
  /\ profile = Unmounted

\* The boot-time restore and the steps of signIn calls.
NextOverlap ==
  \/ loadUserData /\ UNCHANGED screens
  \/ \E c \in Slots : loadUserDataGetUser(c) /\ UNCHANGED screens
  \/ \E c \in Slots : loadUserDataGetToken(c) /\ UNCHANGED screens
  \/ signIn /\ UNCHANGED screens
  \/ \E c \in Slots : signInPost(c) /\ UNCHANGED screens
  \/ \E c \in Slots : storageUserAndTokenSaveUser(c) /\ UNCHANGED screens
  \/ \E c \in Slots : storageUserAndTokenSaveToken(c) /\ UNCHANGED screens
  \/ \E c \in Slots : signInUpdate(c) /\ UNCHANGED screens

SpecOverlap == InitOverlap /\ [][NextOverlap]_vars

\* ------------------------------------------------------------ form values
\* A text is the sequence of its characters; "" is << >>.  A field nobody
\* typed into is undefined, a field defaulted to null is null.
Undefined == <<"undefined">>
NullStr == <<"null">>

Letters == {"A", "a", "c", "n", "o", "x"}
Digits == {"1", "2", "3", "4", "5", "6"}
AlNum == Letters \cup Digits

\* undefined, null or "": what `required` rejects and `value?.length` is
\* falsy for.
IsBlank(v) == v = Undefined \/ v = NullStr \/ v = << >>

\* string().email(): one or more local characters, "@", then labels joined by
\* ".", every label beginning and ending with a letter or digit and made of
\* letters, digits and "-".
YupLocalChars == AlNum \cup {".", "!", "#", "$", "%", "&", "'", "*", "+", "/",
                             "=", "?", "^", "_", "{", "|", "}", "~", "-"}
YupDomain(d) ==
  /\ Len(d) > 0
  /\ \A k \in 1 .. Len(d) : d[k] \in AlNum \cup {"-", "."}
  /\ d[1] \in AlNum
  /\ d[Len(d)] \in AlNum
  /\ \A k \in 2 .. Len(d) - 1 :
       d[k] = "." => d[k - 1] \in AlNum /\ d[k + 1] \in AlNum
YupEmail(s) ==
  \E i \in 2 .. Len(s) :
    /\ s[i] = "@"
    /\ \A j \in 1 .. i - 1 : s[j] \in YupLocalChars
    /\ YupDomain(SubSeq(s, i + 1, Len(s)))

\* The pattern of the email rule,
\* /^[A-Z0-9._%+-]+@[A-Z0-9.-]+\.[A-Z]{2,}$/i.
RulesEmail(s) ==
  \E i \in 2 .. Len(s) : \E k \in i + 2 .. Len(s) - 2 :
    /\ s[i] = "@"
    /\ \A j \in 1 .. i - 1 : s[j] \in AlNum \cup {".", "_", "%", "+", "-"}
    /\ \A j \in i + 1 .. k - 1 : s[j] \in AlNum \cup {".", "-"}
    /\ s[k] = "."
    /\ \A j \in k + 1 .. Len(s) : s[j] \in Letters

\* The texts the sign-up form is filled with.
NameInputs == {Undefined, << >>, <<"A", "n", "a">>}
EmailInputs == {Undefined, << >>, <<"a", "n", "a">>, <<"a", "@", "x">>,
                <<"a", "@", "x", ".", "c", "o">>}
PasswordInputs == {Undefined, << >>, <<"1", "2", "3", "4", "5">>,
                   <<"1", "2", "3", "4", "5", "6">>,
                   <<"6", "5", "4", "3", "2", "1">>}

SignUpForms == [name : NameInputs, email : EmailInputs,
                password : PasswordInputs, passwordConfirm : PasswordInputs]

\* Minimum length of a password.
MinPasswordLen == 6

NoError == ""

\* signUpSchema: the message of the first failing test of every field.
signUpSchema(f) ==
  [name |-> IF IsBlank(f.name) THEN "Informe o nome." ELSE NoError,
   email |-> IF IsBlank(f.email) THEN "Informe o e-mail."
             ELSE IF ~YupEmail(f.email) THEN "E-mail invalido."
             ELSE NoError,
   password |-> IF IsBlank(f.password) THEN "Informe a senha"
                ELSE IF Len(f.password) < MinPasswordLen
                  THEN "A senha deve ter pelo menos 6 digitos."
                ELSE NoError,
   passwordConfirm |->
     IF IsBlank(f.passwordConfirm) THEN "Confirme a senha."
     ELSE IF f.passwordConfirm \notin {f.password, << >>}
       THEN "A confirmacao da senha nao confere."
     ELSE NoError]

\* The Controller rules of the SignUp screen without a schema: name and email
\* carry rules, the two password fields carry none.
signUpRules(f) ==
  [name |-> IF IsBlank(f.name) THEN "Informe o nome" ELSE NoError,
   email |-> IF IsBlank(f.email) THEN "Informe o e-mail."
             ELSE IF ~RulesEmail(f.email) THEN "E-mail invalido"
             ELSE NoError,
   password |-> NoError,
   passwordConfirm |-> NoError]

\* A validation result without a message.
Accepts(errors) == \A k \in DOMAIN errors : errors[k] = NoError

\* ------------------------------------------------------------ SignUp screen
\* Number of handleSubmit runs on one screen.
MaxSubmits == 2

Handlers == 1 .. MaxSubmits

\* The titles of the notifications.
AppErrorMessage == "error.message"
SignUpFallback == "Nao foi possivel criar a conta. Tente novamente mais tarde."

\* A handleSignUp invocation that has not happened.
NoHandler == [pc |-> "idle", via |-> "none", data |-> << >>, posted |-> << >>,
              postUsers |-> "none", signInArgs |-> << >>, call |-> 0,
              caught |-> FALSE]

\* The screen as mounted with the form filled: variant "schema" is the screen
\* with signUpSchema and the requests, variant "rules" the one with Controller
\* rules whose handleSignUp only logs.
SignUpMounted(variant, form) ==
  [mounted |-> TRUE, variant |-> variant, form |-> form,
   errors |-> [k \in DOMAIN form |-> NoError], isLoading |-> FALSE,
   submits |-> 0, handlers |-> [h \in Handlers |-> NoHandler],
   toasts |-> << >>]

\* The handleSubmit runs so far were all passed on to handleSignUp.
FreeHandler == signUp.submits + 1

\* The resolver of the mounted variant.
signUpResolver(f) ==
  IF signUp.variant = "schema" THEN signUpSchema(f) ELSE signUpRules(f)

\* handleSubmit(handleSignUp) runs, from the button (via = "button") or from
\* the send key of the confirmation field (via = "sendKey"): the form is
\* validated; with errors they are shown; without, handleSignUp(data) is
\* invoked: the schema variant sets isLoading and awaits POST /users, the
\* rules variant logs the data and returns.
handleSubmitSignUp(via) ==
  /\ signUp.mounted
  /\ signUp.submits < MaxSubmits
  /\ LET errors == signUpResolver(signUp.form)
         h == FreeHandler
     IN IF ~Accepts(errors)
          THEN signUp' = [signUp EXCEPT !.errors = errors,
                                        !.submits = @ + 1]
          ELSE IF signUp.variant = "schema"
            THEN signUp' =
                   [signUp EXCEPT
                      !.errors = errors,
                      !.submits = @ + 1,
                      !.isLoading = TRUE,
                      !.handlers[h] =
                        [NoHandler EXCEPT
                           !.pc = "postUsers", !.via = via,
                           !.data = signUp.form,
                           !.posted = <<signUp.form.name, signUp.form.email,
                                        signUp.form.password>>,
                           !.postUsers = "pending"]]
            ELSE signUp' =
                   [signUp EXCEPT
                      !.errors = errors,
                      !.submits = @ + 1,
                      !.handlers[h] =
                        [NoHandler EXCEPT !.pc = "done", !.via = via,
                                          !.data = signUp.form]]
  /\ UNCHANGED <<user, isLoadingUserStorage, header, stUser, stToken, calls,
                 booted, pre, lastUpd, profile>>

\* The Button component: while isLoading is passed as true it takes no press.
ButtonEnabled(isLoading) == ~isLoading

\* The submit button: the schema variant passes isLoading to it, the rules
\* variant passes none.
pressSignUpButton ==
  /\ signUp.mounted
  /\ ButtonEnabled(signUp.variant = "schema" /\ signUp.isLoading)
  /\ handleSubmitSignUp("button")

\* onSubmitEditing of the confirmation field: the send key of the keyboard.
submitEditingSignUp ==
  /\ signUp.mounted
  /\ handleSubmitSignUp("sendKey")

\* The catch block of handleSignUp: isLoading cleared, one notification with
\* the message of an AppError or with the fallback title.
catchSignUp(h, isAppError, postUsers) ==
  signUp' = [signUp EXCEPT
               !.isLoading = FALSE,
               !.toasts = Append(@, IF isAppError THEN AppErrorMessage
                                                  ELSE SignUpFallback),
               !.handlers[h].pc = "done",
               !.handlers[h].postUsers = postUsers,
               !.handlers[h].caught = TRUE]

\* The slot the next call of a session operation begins in.
LowestFree == CHOOSE c \in FreeSlots : \A d \in FreeSlots : c <= d

\* handleSignUp: POST /users completes and signIn(email, password) is called,
\* or POST /users throws (an AppError or another error).  POST /users of a
\* second handler completes after the handler that is awaiting signIn resumed.
handleSignUpPostUsers_NoTry(h) ==
  /\ signUp.mounted
  /\ signUp.handlers[h].pc = "postUsers"
  /\ \A g \in Handlers : signUp.handlers[g].pc # "signIn"
  /\ signIn
  /\ \E postUsers \in {"ok", "failed"} :
       signUp' = [signUp EXCEPT
                    !.handlers[h].pc = "signIn",
                    !.handlers[h].postUsers = postUsers,
                    !.handlers[h].call = LowestFree,
                    !.handlers[h].signInArgs =
                      Append(@, <<signUp.handlers[h].data.email,
                                  signUp.handlers[h].data.password>>)]
  /\ UNCHANGED profile

handleSignUpPostUsers(h) ==
  /\ signUp.mounted
  /\ signUp.handlers[h].pc = "postUsers"
  /\ \/ /\ \A g \in Handlers : signUp.handlers[g].pc # "signIn"
        /\ signIn
        /\ signUp' = [signUp EXCEPT
                        !.handlers[h].pc = "signIn",
                        !.handlers[h].postUsers = "ok",
                        !.handlers[h].call = LowestFree,
                        !.handlers[h].signInArgs =
                          Append(@, <<signUp.handlers[h].data.email,
                                      signUp.handlers[h].data.password>>)]
     \/ /\ \E isAppError \in BOOLEAN : catchSignUp(h, isAppError, "failed")
        /\ UNCHANGED <<user, isLoadingUserStorage, header, stUser, stToken,
                       calls, booted, pre, lastUpd>>
  /\ UNCHANGED profile

\* handleSignUp resumes after `await signIn(email, password)`: it returns when
\* signIn resolved, and runs its catch block when signIn rejected (only an
\* error of the request can be an AppError).
handleSignUpSignIn(h) ==
  /\ signUp.mounted
  /\ signUp.handlers[h].pc = "signIn"
  /\ LET c == signUp.handlers[h].call
     IN /\ calls[c].op = "signIn"
        /\ calls[c].pc = "done"
        /\ IF calls[c].outcome = "resolved"
             THEN signUp' = [signUp EXCEPT !.handlers[h].pc = "done"]
             ELSE \E isAppError \in BOOLEAN :
                    /\ isAppError => calls[c].error = "api.post"
                    /\ catchSignUp(h, isAppError, "ok")
  /\ UNCHANGED <<user, isLoadingUserStorage, header, stUser, stToken, calls,
                 booted, pre, lastUpd, profile>>

\* The session after the boot-time loadUserData has resolved on an empty
\* store: nobody is logged in, which is when the SignUp screen is shown.
LoggedOutSession ==
  /\ user = EmptyUser
  /\ isLoadingUserStorage = FALSE
  /\ header = NoHeader
  /\ stUser = NoItem
  /\ stToken = Null
  /\ calls = [c \in 1 .. MaxCalls |->
               IF c = 1
                 THEN [op |-> "loadUserData", pc |-> "done",
                       userData |-> NullUser, token |-> Null, alone |-> TRUE,
                       outcome |-> "resolved", error |-> "none"]
                 ELSE Idle]
  /\ booted = TRUE
  /\ pre = [taken |-> TRUE, user |-> EmptyUser, header |-> NoHeader,
            stUser |-> NoItem, stToken |-> Null,
            isLoadingUserStorage |-> TRUE]
  /\ lastUpd = NoUpd

InitSignUp ==
  /\ LoggedOutSession
  /\ \E variant \in {"schema", "rules"} : \E form \in SignUpForms :
       signUp = SignUpMounted(variant, form)
  /\ profile = Unmounted

NextSignUp ==
  \/ pressSignUpButton
  \/ submitEditingSignUp
  \/ \E h \in Handlers : handleSignUpPostUsers(h)
  \/ \E h \in Handlers : handleSignUpSignIn(h)
  \/ \E c \in Slots : signInPost(c) /\ UNCHANGED screens
  \/ \E c \in Slots : storageUserAndTokenSaveUser(c) /\ UNCHANGED screens
  \/ \E c \in Slots : storageUserAndTokenSaveToken(c) /\ UNCHANGED screens
  \/ \E c \in Slots : signInUpdate(c) /\ UNCHANGED screens

SpecSignUp == InitSignUp /\ [][NextSignUp]_vars

\* ------------------------------------------------------------ Profile form
\* The text of a name or an email of the session user, and the inverse.
Text(s) ==
  IF s = "ana" THEN <<"a", "n", "a">>
  ELSE IF s = "bob" THEN <<"b", "o", "b">>
  ELSE <<"a", "n", "a", "@", "x", ".", "c", "o", "m">>
NameOf(t) == CHOOSE n \in Names : Text(n) = t

\* The texts the profile form is filled with.
ProfileNameInputs == {<< >>} \cup {Text(n) : n \in Names}
ProfileEmailInputs == {<< >>} \cup {Text(e) : e \in Emails}
ProfilePasswordInputs ==
  {Undefined, NullStr, << >>, <<"1", "2", "3", "4", "5">>,
   <<"1", "2", "3", "4", "5", "6">>, <<"6", "5", "4", "3", "2", "1">>}

ProfileForms == [name : ProfileNameInputs, email : ProfileEmailInputs,
                 password : ProfilePasswordInputs,
                 confirm_password : ProfilePasswordInputs]

\* profileSchema of the wired screen: name and email required; the test of
\* password and the test of confirm_password, each reading the other field.
profileSchemaWired_NoConfirmRequired(f) ==
  [name |-> IF IsBlank(f.name) THEN "Informe o nome." ELSE NoError,
   email |-> IF IsBlank(f.email) THEN "Informe o email." ELSE NoError,
   password |->
     IF ~IsBlank(f.confirm_password) /\ IsBlank(f.password)
       THEN "Informe a senha."
     ELSE IF ~IsBlank(f.password) /\ Len(f.password) < MinPasswordLen
       THEN "A senha deve ter pelo menos 6 digitos."
     ELSE NoError,
   confirm_password |->
     IF ~IsBlank(f.password) /\ ~IsBlank(f.confirm_password)
        /\ f.confirm_password # f.password
       THEN "A confirmacao de senha nao confere."
     ELSE NoError]

profileSchemaWired(f) ==
  [name |-> IF IsBlank(f.name) THEN "Informe o nome." ELSE NoError,
   email |-> IF IsBlank(f.email) THEN "Informe o email." ELSE NoError,
   password |->
     IF ~IsBlank(f.confirm_password) /\ IsBlank(f.password)
       THEN "Informe a senha."
     ELSE IF ~IsBlank(f.password) /\ Len(f.password) < MinPasswordLen
       THEN "A senha deve ter pelo menos 6 digitos."
     ELSE NoError,
   confirm_password |->
     IF ~IsBlank(f.password) /\ IsBlank(f.confirm_password)
       THEN "Informe a confirmacao de senha."
     ELSE IF ~IsBlank(f.password) /\ f.confirm_password # f.password
       THEN "A confirmacao de senha nao confere."
     ELSE NoError]

\* `.transform((value) => value || null)`: "" becomes null; a transform is
\* not run on undefined.
OrNull(v) == IF v = << >> THEN NullStr ELSE v

\* profileSchema of the skeleton screen: password `.min(6)` on the transformed
\* value (skipped when absent); confirmPassword `.oneOf([ref('password'),
\* null])` (passed by undefined), and required when the transformed password
\* is truthy.
profileSchemaSkeleton_NoNull(f) ==
  LET password == OrNull(f.password)
      confirmPassword == OrNull(f.confirm_password)
  IN [name |-> IF IsBlank(f.name) THEN "Informe o nome." ELSE NoError,
      email |-> IF IsBlank(f.email) THEN "Informe o email." ELSE NoError,
      password |->
        IF ~IsBlank(password) /\ Len(password) < MinPasswordLen
          THEN "A senha deve ter pelo menos 6 digitos."
        ELSE NoError,
      confirm_password |->
        IF ~IsBlank(password) /\ IsBlank(confirmPassword)
          THEN "Informe a confirmacao de senha."
        ELSE IF confirmPassword # Undefined
                /\ confirmPassword \notin {password}
          THEN "A confirmacao de senha nao confere."
        ELSE NoError]

profileSchemaSkeleton(f) ==
  LET password == OrNull(f.password)
      confirmPassword == OrNull(f.confirm_password)
  IN [name |-> IF IsBlank(f.name) THEN "Informe o nome." ELSE NoError,
      email |-> IF IsBlank(f.email) THEN "Informe o email." ELSE NoError,
      password |->
        IF ~IsBlank(password) /\ Len(password) < MinPasswordLen
          THEN "A senha deve ter pelo menos 6 digitos."
        ELSE NoError,
      confirm_password |->
        IF ~IsBlank(password) /\ IsBlank(confirmPassword)
          THEN "Informe a confirmacao de senha."
        ELSE IF confirmPassword # Undefined
                /\ confirmPassword \notin {password, NullStr}
          THEN "A confirmacao de senha nao confere."
        ELSE NoError]

\* ----------------------------------------------------------- Profile screen
\* The ceiling of the size of a picked image, in MB, and the bytes of one MB.
MaxPhotoMB == 5
BytesPerMB == 1024 * 1024

\* Sizes FileSystem.getInfoAsync reports (0: no size reported), the image
\* reference the picker returns and the one PATCH /users/avatar answers with.
PhotoSizes == {0, 1024, MaxPhotoMB * BytesPerMB, MaxPhotoMB * BytesPerMB + 1}
PickedUri == "file.png"
UploadedAvatar == "pic"
InitialUserPhoto == "https://github.com/marcellasasso.png"

\* `photoInfo.size && photoInfo.size / 1024 / 1024 > 5`.
TooLarge(size) == size # 0 /\ size > MaxPhotoMB * BytesPerMB

\* The titles of the notifications.
ProfileUpdated == "Perfil atualizado com sucesso!"
ProfileFallback ==
  "Nao foi possivel alterar os dados. Tente novamente mais tarde."
PhotoTooLarge == "Essa imagem e muito grande. Escolha uma de ate 5MB."
PhotoUpdated == "Foto atualizada com sucesso!"

\* A handleProfileUpdate and a handleUserPhotoSelect invocation that has not
\* happened.  userBefore is the session user when the request completed,
\* userUpdated the argument of updateUserProfile and sessionAtCall the session
\* user at the moment updateUserProfile is called.
NoUpdate == [pc |-> "idle", data |-> << >>, put |-> "none",
             userBefore |-> EmptyUser, userUpdated |-> EmptyUser,
             sessionAtCall |-> EmptyUser, call |-> 0, toasts |-> << >>,
             isAppError |-> FALSE]
NoPhoto == [pc |-> "idle", size |-> 0, patch |-> "none", called |-> FALSE,
            userBefore |-> EmptyUser, userUpdated |-> EmptyUser,
            sessionAtCall |-> EmptyUser, call |-> 0, toasts |-> << >>]
NoSubmit == [data |-> << >>, errors |-> << >>]

\* The defaultValues of useForm: the wired screen defaults the password
\* fields to null, the skeleton screen leaves them undefined.
ProfileDefaults(variant, u) ==
  [name |-> Text(u.name), email |-> Text(u.email),
   password |-> IF variant = "wired" THEN NullStr ELSE Undefined,
   confirm_password |-> IF variant = "wired" THEN NullStr ELSE Undefined]

\* The screen as mounted for session user u with the form filled.
ProfileMounted(variant, u, form) ==
  [mounted |-> TRUE, variant |-> variant,
   defaults |-> ProfileDefaults(variant, u), form |-> form,
   errors |-> [k \in DOMAIN form |-> NoError], last |-> NoSubmit,
   isUpdating |-> FALSE, photoIsLoading |-> FALSE,
   userPhoto |-> InitialUserPhoto,
   submits |-> 0, presses |-> 0, edits |-> 0,
   upd |-> [h \in Handlers |-> NoUpdate],
   photos |-> [h \in Handlers |-> NoPhoto]]

\* The resolver of the mounted variant.
profileResolver(f) ==
  IF profile.variant = "wired" THEN profileSchemaWired(f)
                               ELSE profileSchemaSkeleton(f)

\* No handler of the screen is awaiting updateUserProfile.
NoneAwaitingUpdate ==
  \A g \in Handlers :
    profile.upd[g].pc # "update" /\ profile.photos[g].pc # "update"

sessionFrame == <<user, isLoadingUserStorage, header, stUser, stToken, calls,
                  booted, pre, lastUpd>>

\* The submit button is pressed: handleSubmit(handleProfileUpdate) validates
\* the form; with errors they are shown; without, handleProfileUpdate(data)
\* is invoked: the wired screen sets isUpdating and awaits PUT /users, the
\* skeleton screen logs the data and returns.
pressProfileButton ==
  /\ profile.mounted
  /\ ButtonEnabled(profile.variant = "wired" /\ profile.isUpdating)
  /\ profile.submits < MaxSubmits
  /\ LET errors == profileResolver(profile.form)
         h == profile.submits + 1
         submitted == [profile EXCEPT
                         !.errors = errors,
                         !.last = [data |-> profile.form, errors |-> errors],
                         !.submits = @ + 1]
     IN IF ~Accepts(errors)
          THEN profile' = submitted
          ELSE IF profile.variant = "wired"
            THEN profile' =
                   [submitted EXCEPT
                      !.isUpdating = TRUE,
                      !.upd[h] = [NoUpdate EXCEPT !.pc = "putUsers",
                                                  !.data = profile.form,
                                                  !.put = "pending"]]
            ELSE profile' =
                   [submitted EXCEPT
                      !.upd[h] = [NoUpdate EXCEPT !.pc = "done",
                                                  !.data = profile.form]]
  /\ UNCHANGED <<sessionFrame, signUp>>

\* The catch and finally blocks of handleProfileUpdate: one notification with
\* the message of an AppError or with the fallback title, isUpdating cleared.
catchProfileUpdate(h, isAppError, put) ==
  profile' = [profile EXCEPT
                !.isUpdating = FALSE,
                !.upd[h].pc = "done",
                !.upd[h].put = put,
                !.upd[h].isAppError = isAppError,
                !.upd[h].toasts =
                  Append(@, IF isAppError THEN AppErrorMessage
                                          ELSE ProfileFallback)]

\* handleProfileUpdate: PUT /users completes, `userUpdated = user` names the
\* session user object, `userUpdated.name = data.name` writes into it and
\* updateUserProfile(userUpdated) is called; or PUT /users throws.
handleProfileUpdatePut(h) ==
  /\ profile.mounted
  /\ profile.upd[h].pc = "putUsers"
  /\ \/ LET userUpdated ==
              [user EXCEPT !.name = NameOf(profile.upd[h].data.name)]
        IN /\ NoneAwaitingUpdate
           /\ updateUserProfile(userUpdated)
           /\ profile' = [profile EXCEPT
                            !.upd[h].pc = "update",
                            !.upd[h].put = "ok",
                            !.upd[h].userBefore = user,
                            !.upd[h].userUpdated = userUpdated,
                            !.upd[h].sessionAtCall = userUpdated,
                            !.upd[h].call = LowestFree]
     \/ /\ \E isAppError \in BOOLEAN :
             catchProfileUpdate(h, isAppError, "failed")
        /\ UNCHANGED sessionFrame
  /\ UNCHANGED signUp

\* handleProfileUpdate resumes after `await updateUserProfile(userUpdated)`:
\* reset() puts the form back to its defaultValues and the success
\* notification is shown, or the catch block runs on the storage error.
handleProfileUpdateResume(h) ==
  /\ profile.mounted
  /\ profile.upd[h].pc = "update"
  /\ LET c == profile.upd[h].call
     IN /\ calls[c].op = "updateUserProfile"
        /\ calls[c].pc = "done"
        /\ IF calls[c].outcome = "resolved"
             THEN profile' =
                    [profile EXCEPT
                       !.form = profile.defaults,
                       !.errors = [k \in DOMAIN profile.form |-> NoError],
                       !.isUpdating = FALSE,
                       !.upd[h].pc = "done",
                       !.upd[h].toasts = Append(@, ProfileUpdated)]
             ELSE catchProfileUpdate(h, FALSE, "ok")
  /\ UNCHANGED <<sessionFrame, signUp>>

\* The photo is touched: handleUserPhotoSelect sets photoIsLoading and awaits
\* the image picker.
pressUserPhoto ==
  /\ profile.mounted
  /\ profile.presses < MaxSubmits
  /\ profile' = [profile EXCEPT
                   !.presses = @ + 1,
                   !.photoIsLoading = TRUE,
                   !.photos[profile.presses + 1] =
                     [NoPhoto EXCEPT !.pc = "picker"]]
  /\ UNCHANGED <<sessionFrame, signUp>>

\* handleUserPhotoSelect without its finally block.
finallyPhoto_NoFinally(h, title) ==
  profile' = [profile EXCEPT
                !.photos[h].pc = "done",
                !.photos[h].toasts = @ \o title]

\* handleUserPhotoSelect returns or its catch block has logged the error:
\* the finally block clears photoIsLoading.
finallyPhoto(h, title) ==
  profile' = [profile EXCEPT
                !.photoIsLoading = FALSE,
                !.photos[h].pc = "done",
                !.photos[h].toasts = @ \o title]

\* handleUserPhotoSelect: the picker returns canceled or without an asset
\* (the function returns), with an asset (getInfoAsync is awaited), or throws.
handleUserPhotoSelectPicker(h) ==
  /\ profile.mounted
  /\ profile.photos[h].pc = "picker"
  /\ \/ finallyPhoto(h, << >>)
     \/ profile' = [profile EXCEPT !.photos[h].pc = "getInfo"]
  /\ UNCHANGED <<sessionFrame, signUp>>

\* handleUserPhotoSelect: getInfoAsync reports the size; an image over the
\* ceiling is answered with a notification and the function returns; else the
\* wired screen awaits PATCH /users/avatar and the skeleton screen shows the
\* picked image.  Or getInfoAsync throws.
handleUserPhotoSelectGetInfo_NoCeiling(h) ==
  /\ profile.mounted
  /\ profile.photos[h].pc = "getInfo"
  /\ \/ \E size \in PhotoSizes :
          IF profile.variant = "wired"
            THEN profile' = [profile EXCEPT !.photos[h].pc = "patch",
                                            !.photos[h].size = size,
                                            !.photos[h].patch = "pending"]
            ELSE profile' = [profile EXCEPT !.photoIsLoading = FALSE,
                                            !.userPhoto = PickedUri,
                                            !.photos[h].pc = "done",
                                            !.photos[h].size = size]
     \/ finallyPhoto(h, << >>)
  /\ UNCHANGED <<sessionFrame, signUp>>

handleUserPhotoSelectGetInfo(h) ==
  /\ profile.mounted
  /\ profile.photos[h].pc = "getInfo"
  /\ \/ \E size \in PhotoSizes :
          IF TooLarge(size)
            THEN profile' = [profile EXCEPT
                               !.photoIsLoading = FALSE,
                               !.photos[h].pc = "done",
                               !.photos[h].size = size,
                               !.photos[h].toasts = Append(@, PhotoTooLarge)]
          ELSE IF profile.variant = "wired"
            THEN profile' = [profile EXCEPT !.photos[h].pc = "patch",
                                            !.photos[h].size = size,
                                            !.photos[h].patch = "pending"]
            ELSE profile' = [profile EXCEPT !.photoIsLoading = FALSE,
                                            !.userPhoto = PickedUri,
                                            !.photos[h].pc = "done",
                                            !.photos[h].size = size]
     \/ finallyPhoto(h, << >>)
  /\ UNCHANGED <<sessionFrame, signUp>>

\* handleUserPhotoSelect: PATCH /users/avatar completes, `userUpdated = user`
\* names the session user object, `userUpdated.avatar = ...data.avatar`
\* writes into it and updateUserProfile(userUpdated) is called; or the
\* request throws and the catch block logs the error.
handleUserPhotoSelectPatch(h) ==
  /\ profile.mounted
  /\ profile.photos[h].pc = "patch"
  /\ \/ LET userUpdated == [user EXCEPT !.avatar = UploadedAvatar]
        IN /\ NoneAwaitingUpdate
           /\ updateUserProfile(userUpdated)
           /\ profile' = [profile EXCEPT
                            !.photos[h].pc = "update",
                            !.photos[h].patch = "ok",
                            !.photos[h].called = TRUE,
                            !.photos[h].userBefore = user,
                            !.photos[h].userUpdated = userUpdated,
                            !.photos[h].sessionAtCall = userUpdated,
                            !.photos[h].call = LowestFree]
     \/ /\ profile' = [profile EXCEPT !.photoIsLoading = FALSE,
                                      !.photos[h].pc = "done",
                                      !.photos[h].patch = "failed"]
        /\ UNCHANGED sessionFrame
  /\ UNCHANGED signUp

\* handleUserPhotoSelect resumes after `await updateUserProfile(userUpdated)`:
\* the success notification, or the catch block logs the storage error.
handleUserPhotoSelectResume(h) ==
  /\ profile.mounted
  /\ profile.photos[h].pc = "update"
  /\ LET c == profile.photos[h].call
     IN /\ calls[c].op = "updateUserProfile"
        /\ calls[c].pc = "done"
        /\ IF calls[c].outcome = "resolved"
             THEN finallyPhoto(h, <<PhotoUpdated>>)
             ELSE finallyPhoto(h, << >>)
  /\ UNCHANGED <<sessionFrame, signUp>>

\* Number of times a password field is typed into, and what is typed.
MaxEdits == 1
EditInputs == {<< >>, <<"1", "2", "3", "4", "5", "6">>}

\* A password field is typed into: after a submit the resolver runs again and
\* the error of the field is renewed; on the wired screen the effect on the
\* two watched fields clears their errors when both are empty.
changePasswordField(field, value) ==
  /\ profile.mounted
  /\ profile.edits < MaxEdits
  /\ LET form == [profile.form EXCEPT ![field] = value]
         errors == IF profile.submits > 0
                     THEN [profile.errors EXCEPT
                             ![field] = profileResolver(form)[field]]
                     ELSE profile.errors
     IN profile' =
          [profile EXCEPT
             !.edits = @ + 1,
             !.form = form,
             !.errors =
               IF profile.variant = "wired" /\ IsBlank(form.password)
                  /\ IsBlank(form.confirm_password)
                 THEN [errors EXCEPT !.password = NoError,
                                     !.confirm_password = NoError]
                 ELSE errors]
  /\ UNCHANGED <<sessionFrame, signUp>>

\* The session with a user logged in, restored by the boot-time loadUserData:
\* when the Profile screen is shown.
LoggedInSession(u, token) ==
  /\ user = u
  /\ isLoadingUserStorage = FALSE
  /\ header = Bearer(token)
  /\ stUser = storageUserSave(u)
  /\ stToken = storageAuthTokenSave(token)
  /\ calls = [c \in 1 .. MaxCalls |->
               IF c = 1
                 THEN [op |-> "loadUserData", pc |-> "done",
                       userData |-> u, token |-> token, alone |-> TRUE,
                       outcome |-> "resolved", error |-> "none"]
                 ELSE Idle]
  /\ booted = TRUE
  /\ pre = [taken |-> TRUE, user |-> EmptyUser, header |-> NoHeader,
            stUser |-> storageUserSave(u),
            stToken |-> storageAuthTokenSave(token),
            isLoadingUserStorage |-> TRUE]
  /\ lastUpd = NoUpd

InitProfile ==
  /\ \E u \in ServerUsers : LoggedInSession(u, "t1")
  /\ signUp = Unmounted
  /\ \E variant \in {"wired", "skeleton"} : \E form \in ProfileForms :
       profile = ProfileMounted(variant, user, form)

NextProfile ==
  \/ pressProfileButton
  \/ \E h \in Handlers : handleProfileUpdatePut(h)
  \/ \E h \in Handlers : handleProfileUpdateResume(h)
  \/ \E field \in {"password", "confirm_password"} : \E value \in EditInputs :
       changePasswordField(field, value)
  \/ \E c \in Slots : updateUserProfileSave(c) /\ UNCHANGED screens

SpecProfile == InitProfile /\ [][NextProfile]_vars

\* The Profile screen with its form untouched, and its photo touched.
InitPhoto ==
  /\ \E u \in ServerUsers : LoggedInSession(u, "t1")
  /\ signUp = Unmounted
  /\ \E variant \in {"wired", "skeleton"} :
       profile = ProfileMounted(variant, user,
                                ProfileDefaults(variant, user))

NextPhoto ==
  \/ pressUserPhoto
  \/ \E h \in Handlers : handleUserPhotoSelectPicker(h)
  \/ \E h \in Handlers : handleUserPhotoSelectGetInfo(h)
  \/ \E h \in Handlers : handleUserPhotoSelectPatch(h)
  \/ \E h \in Handlers : handleUserPhotoSelectResume(h)
  \/ \E c \in Slots : updateUserProfileSave(c) /\ UNCHANGED screens

SpecPhoto == InitPhoto /\ [][NextPhoto]_vars

\* The Profile screen with its form untouched, submitted and its photo
\* touched, MaxScreenRuns times in all.
MaxScreenRuns == 2
ScreenRuns == profile.submits + profile.presses

NextProfileScreen ==
  \/ ScreenRuns < MaxScreenRuns /\ pressProfileButton
  \/ ScreenRuns < MaxScreenRuns /\ pressUserPhoto
  \/ \E h \in Handlers : handleProfileUpdatePut(h)
  \/ \E h \in Handlers : handleProfileUpdateResume(h)
  \/ \E h \in Handlers : handleUserPhotoSelectPicker(h)
  \/ \E h \in Handlers : handleUserPhotoSelectGetInfo(h)
  \/ \E h \in Handlers : handleUserPhotoSelectPatch(h)
  \/ \E h \in Handlers : handleUserPhotoSelectResume(h)
  \/ \E c \in Slots : updateUserProfileSave(c) /\ UNCHANGED screens

SpecProfileScreen == InitPhoto /\ [][NextProfileScreen]_vars

\* ------------------------------------------------------------ properties
\* The call in slot c is a call of op that ran with no other call in flight.
Alone(c, op) == calls[c].op = op /\ calls[c].alone

\* The call in slot c has completed.
Done(c) == calls[c].pc = "done"

\* C1: in every reachable state, a non-empty in-memory user implies a token in
\* the persistent store and the Authorization header 'Bearer <that token>'.
C1_UserHasTokenAndHeader ==
  user # EmptyUser => stToken # Null /\ header = Bearer(stToken)

\* C2: the persisted user record and the persisted token are written and
\* cleared together: when a signIn or a signOut that began with both keys
\* present or both absent has completed and no operation is in flight, both
\* keys are present or both are absent, also when a storage call threw.
C2_KeysTogether ==
  \A c \in Slots :
    /\ calls[c].op \in {"signIn", "signOut"}
    /\ calls[c].alone
    /\ Done(c)
    /\ Quiescent
    /\ (pre.stUser = NoItem <=> pre.stToken = Null)
    => (stUser = NoItem <=> stToken = Null)

\* C3 (as stated): once a signIn that got a user and a token and whose storage
\* writes succeeded has cleared the loading flag, the persisted user, the
\* persisted token, the in-memory user and the Authorization header all hold
\* the returned user and token.
C3_FlagClearImpliesSession ==
  \A c \in Slots :
    /\ Alone(c, "signIn")
    /\ calls[c].pc \in {"update", "done"}
    /\ calls[c].outcome # "rejected"
    /\ TruthyUser(calls[c].userData)
    /\ ~isLoadingUserStorage
    => /\ stUser = Serialize(calls[c].userData)
       /\ stToken = calls[c].token
       /\ user = calls[c].userData
       /\ header = Bearer(calls[c].token)

\* C3 (amended): the loading flag is set during both storage writes; when it
\* is cleared both writes have completed; and when signIn resolves the
\* persisted user, the persisted token, the in-memory user and the
\* Authorization header all hold the returned user and token.
C3_WritesBeforeFlagClearSessionAtResolve ==
  \A c \in Slots :
    Alone(c, "signIn") /\ TruthyUser(calls[c].userData) =>
      /\ calls[c].pc \in {"saveUser", "saveToken"} => isLoadingUserStorage
      /\ calls[c].pc = "update" =>
           /\ ~isLoadingUserStorage
           /\ stUser = Serialize(calls[c].userData)
           /\ stToken = calls[c].token
      /\ Done(c) /\ calls[c].outcome = "resolved" =>
           /\ ~isLoadingUserStorage
           /\ stUser = Serialize(calls[c].userData)
           /\ stToken = calls[c].token
           /\ user = calls[c].userData
           /\ header = Bearer(calls[c].token)

\* C3 witness: a signIn has cleared the flag with both keys written while the
\* in-memory user is still empty.
C3_Witness ==
  \E c \in Slots :
    /\ Alone(c, "signIn")
    /\ calls[c].pc = "update"
    /\ ~isLoadingUserStorage
    /\ stToken = calls[c].token
    /\ user = EmptyUser

\* C4: a signIn that fails rejects with the error and leaves the in-memory
\* user, the Authorization header and both persisted keys as they were before
\* the call.
C4_SignInFailureLeavesState ==
  \A c \in Slots :
    Alone(c, "signIn") /\ Done(c) /\ calls[c].error # "none" =>
      /\ calls[c].outcome = "rejected"
      /\ user = pre.user
      /\ header = pre.header
      /\ stUser = pre.stUser
      /\ stToken = pre.stToken

\* C5: after a signOut of a signed-in session has completed, resolved or
\* rejected, both persisted keys are absent and the in-memory user is the
\* empty sentinel.
C5_SignOutClearsAll ==
  \A c \in Slots :
    /\ Alone(c, "signOut")
    /\ Done(c)
    /\ pre.user # EmptyUser
    /\ pre.stUser # NoItem
    /\ pre.stToken # Null
    => /\ stUser = NoItem
       /\ stToken = Null
       /\ user = EmptyUser

\* C6: the loading flag is true while signOut awaits a storage removal and
\* false once signOut has completed, also when a removal throws; the error of
\* a removal that throws rejects signOut.
C6_SignOutFlagAndRethrow ==
  \A c \in Slots :
    Alone(c, "signOut") =>
      /\ calls[c].pc \in {"removeUser", "removeToken"} => isLoadingUserStorage
      /\ Done(c) => ~isLoadingUserStorage
      /\ Done(c) /\ calls[c].error # "none" => calls[c].outcome = "rejected"

\* C6 witness: a signOut whose storage removal threw has completed.
C6_Witness ==
  \E c \in Slots :
    /\ Alone(c, "signOut")
    /\ Done(c)
    /\ calls[c].error = "storageAuthTokenRemove"
    /\ ~isLoadingUserStorage

\* C7: an updateUserProfile(u) that succeeds leaves the in-memory user and the
\* persisted user record at u, and the persisted token and the Authorization
\* header as they were.
C7_UpdateUserProfileFrame ==
  \A c \in Slots :
    Alone(c, "updateUserProfile") /\ Done(c) /\ calls[c].outcome = "resolved" =>
      /\ user = calls[c].userData
      /\ stUser # NoItem
      /\ Parse(stUser) = calls[c].userData
      /\ stToken = pre.stToken
      /\ header = pre.header

\* C7 witness: an updateUserProfile has succeeded in a signed-in session with
\* a user that differs from the one before.
C7_Witness ==
  \E c \in Slots :
    /\ Alone(c, "updateUserProfile")
    /\ Done(c)
    /\ calls[c].outcome = "resolved"
    /\ pre.stToken # Null
    /\ pre.header # NoHeader
    /\ pre.user # calls[c].userData

\* C8: the loading flag is true while loadUserData reads; after loadUserData
\* has succeeded the flag is false and, with both keys present, the in-memory
\* user is the persisted user and the header is 'Bearer <persisted token>',
\* while with a key absent the in-memory user is empty and no header is set.
C8_LoadUserDataRestores ==
  \A c \in Slots :
    Alone(c, "loadUserData") =>
      /\ calls[c].pc \in {"getUser", "getToken"} => isLoadingUserStorage
      /\ Done(c) /\ calls[c].outcome = "resolved" =>
           /\ ~isLoadingUserStorage
           /\ IF stUser # NoItem /\ stToken # Null
                THEN user = Parse(stUser) /\ header = Bearer(stToken)
                ELSE user = EmptyUser /\ header = NoHeader

\* C8 witness: loadUserData has restored a persisted session.
C8_Witness ==
  \E c \in Slots :
    /\ Alone(c, "loadUserData")
    /\ Done(c)
    /\ calls[c].outcome = "resolved"
    /\ stUser # NoItem
    /\ stToken # Null
    /\ user # EmptyUser

\* C9: updateUserProfile(u), then a restart whose loadUserData succeeds, give
\* the in-memory user u and the persisted token of before updateUserProfile.
C9_RoundTrip ==
  \A c \in Slots :
    /\ Alone(c, "loadUserData")
    /\ Done(c)
    /\ calls[c].outcome = "resolved"
    /\ lastUpd.taken
    => /\ user = lastUpd.user
       /\ stToken = lastUpd.stToken

\* A network or storage call is awaited at pc (at "update" signIn only awaits
\* its own storageUserAndTokenSave).
Suspended(c) == calls[c].pc \in {"post", "saveUser", "saveToken", "removeUser",
                                "removeToken", "getUser", "getToken"}

\* C10 (as stated): the loading flag is true wherever a session operation is
\* suspended on a network or storage call.
C10_FlagWhileSuspended ==
  \A c \in Slots :
    calls[c].alone /\ Suspended(c) => isLoadingUserStorage

\* C10 (amended): signOut and loadUserData hold the loading flag at each of
\* their awaits and have cleared it when they complete; signIn holds it only
\* during its two storage writes and has cleared it after them, and leaves it
\* as it was while POST /sessions is awaited; updateUserProfile never changes
\* it.
C10_FlagPerOperation ==
  \A c \in Slots :
    calls[c].alone =>
      /\ calls[c].op \in {"signOut", "loadUserData"} =>
           /\ Suspended(c) => isLoadingUserStorage
           /\ Done(c) => ~isLoadingUserStorage
      /\ calls[c].op = "signIn" =>
           /\ calls[c].pc \in {"saveUser", "saveToken"} => isLoadingUserStorage
           /\ calls[c].pc = "update" => ~isLoadingUserStorage
           /\ Done(c) /\ calls[c].error \notin {"none", "api.post"} =>
                ~isLoadingUserStorage
           /\ calls[c].pc = "post" =>
                isLoadingUserStorage = pre.isLoadingUserStorage
      /\ calls[c].op = "updateUserProfile" =>
           isLoadingUserStorage = pre.isLoadingUserStorage

\* C10 witness: signIn awaits POST /sessions, and updateUserProfile awaits its
\* storage write, with the loading flag false.
C10_Witness ==
  \E c \in Slots :
    /\ calls[c].alone
    /\ \/ At(c, "signIn", "post")
       \/ At(c, "updateUserProfile", "saveUser")
    /\ ~isLoadingUserStorage

\* The in-memory user and the persisted user record u, st mirror each other.
Mirrored(u, st) == IF u = EmptyUser THEN st = NoItem ELSE st = Serialize(u)

\* C11: whenever no session operation is in flight, the in-memory user equals
\* the persisted user record (both empty when logged out): a signIn, signOut
\* or updateUserProfile that began with the two mirrored leaves them mirrored
\* when it has completed, also when a storage write failed.
C11_UserMirrored ==
  \A c \in Slots :
    /\ calls[c].op \in {"signIn", "signOut", "updateUserProfile"}
    /\ calls[c].alone
    /\ Done(c)
    /\ Quiescent
    /\ Mirrored(pre.user, pre.stUser)
    => Mirrored(user, stUser)

\* The persisted user, the persisted token, the in-memory user and the
\* Authorization header all hold the response the call in slot c received.
SessionOf(c) ==
  /\ stUser = Serialize(calls[c].userData)
  /\ stToken = calls[c].token
  /\ user = calls[c].userData
  /\ header = Bearer(calls[c].token)

\* The call in slot c is a signIn that received a user and a token and has
\* resolved.
SignedIn(c) ==
  /\ calls[c].op = "signIn"
  /\ Done(c)
  /\ calls[c].outcome = "resolved"
  /\ TruthyUser(calls[c].userData)

\* C20: once two overlapping signIn calls that succeeded with different user
\* and token have both completed, the persisted user, the persisted token, the
\* in-memory user and the Authorization header all come from the same one of
\* the two responses.
C20_OverlappingSignInConsistent ==
  \A a, b \in Slots :
    /\ a # b
    /\ SignedIn(a)
    /\ SignedIn(b)
    /\ calls[a].userData # calls[b].userData
    /\ calls[a].token # calls[b].token
    => SessionOf(a) \/ SessionOf(b)

\* ---- C12
\* What the sign-up validation is to reject and to accept.
MustReject(f) ==
  \/ IsBlank(f.name)
  \/ IsBlank(f.email)
  \/ IsBlank(f.password)
  \/ Len(f.password) < MinPasswordLen
  \/ f.passwordConfirm # f.password
MustAccept(f) ==
  /\ ~IsBlank(f.name)
  /\ YupEmail(f.email) /\ RulesEmail(f.email)
  /\ ~IsBlank(f.password)
  /\ Len(f.password) >= MinPasswordLen
  /\ f.passwordConfirm = f.password

\* C12: a sign-up submission with an empty name, email or password, with a
\* password shorter than 6 characters or with a confirmation different from
\* the password never invokes handleSignUp (so no request is sent), and every
\* submission of a non-empty name, a well-formed email, a password of at
\* least 6 characters and an equal confirmation invokes it.
C12_SignUpValidation ==
  signUp.mounted =>
    /\ MustReject(signUp.form) =>
         \A h \in Handlers : signUp.handlers[h] = NoHandler
    /\ MustAccept(signUp.form) =>
         \A h \in 1 .. signUp.submits : signUp.handlers[h].pc # "idle"

\* ---- C13
\* C13: every handleSignUp of the screen with the requests has issued POST
\* /users with the submitted name, email and password before anything else;
\* it has called signIn at most once, with the submitted email and password,
\* exactly once from the moment POST /users succeeded, and not at all while
\* POST /users is pending or after it failed.
C13_SignInAfterPostUsers ==
  signUp.mounted /\ signUp.variant = "schema" =>
    \A h \in Handlers :
      LET r == signUp.handlers[h]
      IN r.pc # "idle" =>
           /\ r.data = signUp.form
           /\ r.posted = <<r.data.name, r.data.email, r.data.password>>
           /\ r.postUsers = "pending" <=> r.pc = "postUsers"
           /\ r.postUsers = "ok" =>
                r.signInArgs = << <<r.data.email, r.data.password>> >>
           /\ r.postUsers # "ok" => r.signInArgs = << >>
           /\ r.pc = "signIn" => calls[r.call].op = "signIn"
C13_Witness ==
  /\ signUp.mounted
  /\ \E h \in Handlers :
       /\ signUp.handlers[h].pc = "done"
       /\ signUp.handlers[h].postUsers = "ok"
       /\ Len(signUp.handlers[h].signInArgs) = 1
       /\ calls[signUp.handlers[h].call].outcome = "resolved"
       /\ TruthyUser(user)

\* ---- C14
\* C14: on the sign-up screen at most one handleSignUp is awaiting POST /users
\* and on the profile screen at most one handleProfileUpdate is awaiting PUT
\* /users, whichever submit trigger is used.
C14_OneSubmissionInFlight ==
  /\ signUp.mounted =>
       Cardinality({h \in Handlers :
                      signUp.handlers[h].pc = "postUsers"}) <= 1
  /\ profile.mounted =>
       Cardinality({h \in Handlers : profile.upd[h].pc = "putUsers"}) <= 1

\* ---- C15
\* The last handleSubmit run of the profile screen invoked
\* handleProfileUpdate.
LastAccepted ==
  /\ Accepts(profile.last.errors)
  /\ profile.upd[profile.submits].pc # "idle"
  /\ profile.upd[profile.submits].data = profile.last.data
LastRejected ==
  /\ ~Accepts(profile.last.errors)
  /\ profile.upd[profile.submits] = NoUpdate

\* C15: for both profile schemas, a submission with name and email present
\* and password and confirmation both empty is accepted, a submission with a
\* non-empty password and an empty confirmation is rejected, and a submission
\* with a non-empty password and a different confirmation is rejected.
C15_ProfileValidation ==
  profile.mounted /\ profile.last # NoSubmit =>
    LET f == profile.last.data
    IN /\ ~IsBlank(f.name) /\ ~IsBlank(f.email) /\ IsBlank(f.password)
          /\ IsBlank(f.confirm_password) => LastAccepted
       /\ ~IsBlank(f.password) /\ IsBlank(f.confirm_password) => LastRejected
       /\ ~IsBlank(f.password) /\ f.confirm_password # f.password
            => LastRejected
C15_Witness ==
  /\ profile.mounted
  /\ profile.variant = "skeleton"
  /\ profile.last # NoSubmit
  /\ profile.last.data.password = Undefined
  /\ profile.last.data.confirm_password = << >>
  /\ LastAccepted

\* ---- C16
\* C16 as stated: a submission whose new-password field is empty has no
\* password and no confirmation error, whatever the confirmation holds.
C16_EmptyPasswordNoError ==
  profile.mounted /\ profile.last # NoSubmit
  /\ IsBlank(profile.last.data.password) =>
    /\ profile.last.errors.password = NoError
    /\ profile.last.errors.confirm_password = NoError

\* C16: a submission whose new-password and confirmation fields are both
\* empty has no password and no confirmation error, and the wired screen
\* displays none while both fields are empty; a submission with an empty
\* new-password field and a non-empty confirmation has a password or a
\* confirmation error and is rejected.
C16_BothEmptyNoError ==
  profile.mounted =>
    /\ profile.last # NoSubmit =>
         LET f == profile.last.data
             e == profile.last.errors
         IN /\ IsBlank(f.password) /\ IsBlank(f.confirm_password) =>
                 e.password = NoError /\ e.confirm_password = NoError
            /\ IsBlank(f.password) /\ ~IsBlank(f.confirm_password) =>
                 /\ e.password # NoError \/ e.confirm_password # NoError
                 /\ LastRejected
    /\ profile.variant = "wired" /\ IsBlank(profile.form.password)
       /\ IsBlank(profile.form.confirm_password) =>
         /\ profile.errors.password = NoError
         /\ profile.errors.confirm_password = NoError
C16_Witness ==
  /\ profile.mounted
  /\ profile.last # NoSubmit
  /\ IsBlank(profile.last.data.password)
  /\ ~IsBlank(profile.last.data.confirm_password)
  /\ ~IsBlank(profile.last.data.name)
  /\ ~IsBlank(profile.last.data.email)
  /\ LastRejected

\* ---- C17
\* A handleUserPhotoSelect of a file reported over the ceiling has ended with
\* the notification, without PATCH /users/avatar and without
\* updateUserProfile.
OverCeilingEnded ==
  profile.mounted =>
    \A h \in Handlers :
      TooLarge(profile.photos[h].size) =>
        /\ profile.photos[h].pc = "done"
        /\ profile.photos[h].patch = "none"
        /\ ~profile.photos[h].called
        /\ profile.photos[h].toasts = <<PhotoTooLarge>>
\* The step in which the size over the ceiling is reported leaves the session
\* user, the persisted user, the calls of the session and the displayed
\* photo alone.
OverCeilingFrame ==
  profile.mounted =>
    \A h \in Handlers :
      profile.photos[h].pc = "getInfo" /\ TooLarge(profile'.photos[h].size) =>
        /\ UNCHANGED <<user, stUser, stToken, header, calls>>
        /\ profile'.userPhoto = profile.userPhoto

\* C17: when the picked file is reported with a size over 5 MB,
\* handleUserPhotoSelect ends without PATCH /users/avatar and without
\* updateUserProfile, and the in-memory user, the persisted user and the
\* displayed photo are unchanged.
C17_OverCeilingNoUpload == []OverCeilingEnded /\ [][OverCeilingFrame]_vars
C17_Witness ==
  /\ profile.mounted
  /\ \E h \in Handlers :
       /\ TooLarge(profile.photos[h].size)
       /\ profile.photos[h].pc = "done"
       /\ ~profile.photoIsLoading

\* ---- C18
\* The handlers whose submission failed.
SignUpFailed(h) == signUp.handlers[h].pc = "done" /\ signUp.handlers[h].caught
UpdateFailed(h) ==
  /\ profile.upd[h].pc = "done"
  /\ \/ profile.upd[h].put = "failed"
     \/ profile.upd[h].put = "ok" /\ profile.upd[h].toasts # <<ProfileUpdated>>
PhotoFailed(h) ==
  /\ profile.photos[h].pc = "done"
  /\ \/ profile.photos[h].patch = "failed"
     \/ profile.photos[h].called /\ profile.photos[h].toasts # <<PhotoUpdated>>
\* Handler h is the last one invoked.
LastHandler(handlers, h) == \A g \in Handlers : g > h => handlers[g].pc = "idle"

\* C18: a failed sign-up, profile update or avatar upload has shown exactly
\* one notification, the message of the application error or the fallback
\* title; the form holds what was submitted and the session user is the one
\* from before the submission.
C18_FailureNotifiedOnce ==
  /\ signUp.mounted =>
       /\ Len(signUp.toasts) = Cardinality({h \in Handlers : SignUpFailed(h)})
       /\ \A k \in 1 .. Len(signUp.toasts) :
            signUp.toasts[k] \in {AppErrorMessage, SignUpFallback}
       /\ \A h \in Handlers :
            SignUpFailed(h) => signUp.form = signUp.handlers[h].data
  /\ profile.mounted =>
       \A h \in Handlers :
         /\ UpdateFailed(h) =>
              /\ profile.upd[h].toasts =
                   <<IF profile.upd[h].isAppError THEN AppErrorMessage
                                                  ELSE ProfileFallback>>
              /\ LastHandler(profile.upd, h) /\ profile.edits = 0 =>
                   /\ profile.form = profile.upd[h].data
                   /\ profile.upd[h].put = "ok" =>
                        user = profile.upd[h].userBefore
         /\ PhotoFailed(h) =>
              /\ Len(profile.photos[h].toasts) = 1
              /\ LastHandler(profile.photos, h) /\ profile.photos[h].called =>
                   user = profile.photos[h].userBefore

\* ---- C19
\* C19: a profile update that reached updateUserProfile passes the session
\* user with only the name changed, an avatar upload passes it with only the
\* avatar changed, and the session user is still the unchanged one when
\* updateUserProfile is called; once the call, alone in flight, has resolved,
\* the persisted user is the passed one and the persisted token and the
\* Authorization header are the ones from before.
C19_OnlyNameOrAvatarChanges ==
  profile.mounted =>
    \A h \in Handlers :
      /\ profile.upd[h].put = "ok" =>
           LET r == profile.upd[h]
           IN /\ r.userUpdated =
                   [r.userBefore EXCEPT !.name = NameOf(r.data.name)]
              /\ r.sessionAtCall = r.userBefore
              /\ r.pc = "update" /\ Alone(r.call, "updateUserProfile")
                 /\ calls[r.call].outcome = "resolved" =>
                   /\ user = r.userUpdated
                   /\ stUser = storageUserSave(r.userUpdated)
                   /\ stToken = pre.stToken
                   /\ header = pre.header
      /\ profile.photos[h].called =>
           LET r == profile.photos[h]
           IN /\ r.userUpdated.id = r.userBefore.id
              /\ r.userUpdated.name = r.userBefore.name
              /\ r.userUpdated.email = r.userBefore.email
              /\ r.sessionAtCall = r.userBefore
              /\ r.pc = "update" /\ Alone(r.call, "updateUserProfile")
                 /\ calls[r.call].outcome = "resolved" =>
                   /\ user = r.userUpdated
                   /\ stUser = storageUserSave(r.userUpdated)
                   /\ stToken = pre.stToken
                   /\ header = pre.header

\* ---- C21
\* The signIn call in slot c has resolved on a response without a user or
\* without a token: it never reached storageUserAndTokenSave.
ResolvedWithoutSession(c) ==
  /\ Done(c)
  /\ calls[c].outcome = "resolved"
  /\ calls[c].userData = NullUser
  /\ calls[c].token = Null

\* C21: a signIn whose POST /sessions answers without a user or without a
\* token resolves without error and leaves the in-memory user, the
\* Authorization header, both persisted keys and the loading flag as they
\* were before the call.
C21_SignInWithoutSessionData ==
  \A c \in Slots :
    Alone(c, "signIn") /\ Done(c) /\ calls[c].userData = NullUser =>
      /\ calls[c].error = "none" => ResolvedWithoutSession(c)
      /\ ResolvedWithoutSession(c) =>
           /\ user = pre.user
           /\ header = pre.header
           /\ stUser = pre.stUser
           /\ stToken = pre.stToken
           /\ isLoadingUserStorage = pre.isLoadingUserStorage
C21_Witness ==
  \E c \in Slots :
    /\ Alone(c, "signIn")
    /\ ResolvedWithoutSession(c)
    /\ pre.taken
    /\ pre.user # EmptyUser

\* ---- C22
\* No handleSignUp is awaiting a request or signIn.
NoSignUpInFlight ==
  \A h \in Handlers : signUp.handlers[h].pc \in {"idle", "done"}

\* C22: on the sign-up screen with the requests, still shown because no
\* session is established, isLoading is false whenever a handleSignUp has
\* completed and none is in flight.
C22_IsLoadingOnlyInFlight ==
  /\ signUp.mounted
  /\ signUp.variant = "schema"
  /\ user = EmptyUser
  /\ NoSignUpInFlight
  /\ \E h \in Handlers : signUp.handlers[h].pc = "done"
  => ~signUp.isLoading

\* ---- C23
\* The step in which a handleUserPhotoSelect or a handleProfileUpdate
\* completes leaves its flag false.
FlagClearedOnCompletion ==
  profile.mounted =>
    \A h \in Handlers :
      /\ profile.photos[h].pc \notin {"idle", "done"}
         /\ profile'.photos[h].pc = "done" => ~profile'.photoIsLoading
      /\ profile.upd[h].pc \notin {"idle", "done"}
         /\ profile'.upd[h].pc = "done" => ~profile'.isUpdating
\* With no handler in flight the flag of the handler is false.
FlagsFalseAtRest ==
  profile.mounted =>
    /\ (\A h \in Handlers : profile.photos[h].pc \in {"idle", "done"})
         => ~profile.photoIsLoading
    /\ (\A h \in Handlers : profile.upd[h].pc \in {"idle", "done"})
         => ~profile.isUpdating

\* C23: on the profile screen photoIsLoading is false once
\* handleUserPhotoSelect has completed and isUpdating is false once
\* handleProfileUpdate has completed, on every path.
C23_ProfileFlagsCleared ==
  []FlagsFalseAtRest /\ [][FlagClearedOnCompletion]_vars
C23_Witness ==
  /\ profile.mounted
  /\ \E h \in Handlers :
       /\ profile.upd[h].pc = "done"
       /\ profile.upd[h].put = "ok"
       /\ profile.upd[h].toasts = <<ProfileFallback>>
  /\ \E h \in Handlers :
       /\ profile.photos[h].pc = "done"
       /\ profile.photos[h].patch = "failed"
  /\ ~profile.isUpdating
  /\ ~profile.photoIsLoading

\* ---- C24
\* C24: after a successful profile update, with no later handleProfileUpdate
\* invoked, the name field of the form is the name of the session user, and
\* while nothing is typed the password fields are empty.
C24_FormShowsSavedName ==
  profile.mounted =>
    \A h \in Handlers :
      /\ profile.upd[h].pc = "done"
      /\ profile.upd[h].toasts = <<ProfileUpdated>>
      /\ LastHandler(profile.upd, h)
      /\ user = profile.upd[h].userUpdated
      => /\ profile.form.name = Text(user.name)
         /\ profile.edits = 0 =>
              /\ IsBlank(profile.form.password)
              /\ IsBlank(profile.form.confirm_password)
====
